---- MODULE Spec2Model ----
(***************************************************************************)
(* Model of the Xiaomi raphael device support layer:                       *)
(*   - fingerprint/BiometricsFingerprint.cpp: the fingerprint HAL bridge   *)
(*     (module discovery, host operations, driver callback dispatch, FOD   *)
(*     watcher thread, authentication boost hint);                         *)
(*   - init/init_xiaomi_raphael.cpp: the boot-time variant selector.       *)
(***************************************************************************)
EXTENDS Integers, Sequences, FiniteSets, TLC

(***************************************************************************)
(* Bounds of the model.                                                    *)
(***************************************************************************)
\* driver return codes / vendor codes are drawn from -MaxCode..MaxCode ...
MaxCode == 112
\* ... and from VENDOR_BASE-VendorSpan .. VENDOR_BASE+VendorSpan
VendorSpan == 3
\* finger ids, group ids and remaining counts carried by driver messages
MaxFid == 2
MaxGid == 1
MaxRem == 1
\* client callbacks the host may register (1..MaxCallbacks; 0 is nullptr)
MaxCallbacks == 2
\* store paths are described by their length: 0..MaxShortPath and
\* PATH_MAX-1 .. PATH_MAX+MaxOverPath
MaxShortPath == 1
MaxOverPath == 1
\* numeric ids returned by the driver (pre_enroll, get_authenticator_id)
MaxId == 1
\* sensor ids passed to isUdfps
MaxSensorId == 2

(***************************************************************************)
(* Program constants.                                                      *)
(***************************************************************************)
COMMAND_NIT == 10
PARAM_NIT_FOD == 1
PARAM_NIT_NONE == 0
kBoostHint == "LAUNCH"
kBoostDurationMs == 2000
NO_ERROR == 0
EINVAL == 22
ENOTCONN == 107
EOPNOTSUPP == 95
PATH_MAX == 4096
\* sizeof(hw_auth_token_t), the size of msg->data.authenticated.hat
HatSize == 69
NULL == 0

FINGERPRINT_ERROR_HW_UNAVAILABLE == 1
FINGERPRINT_ERROR_UNABLE_TO_PROCESS == 2
FINGERPRINT_ERROR_TIMEOUT == 3
FINGERPRINT_ERROR_NO_SPACE == 4
FINGERPRINT_ERROR_CANCELED == 5
FINGERPRINT_ERROR_UNABLE_TO_REMOVE == 6
FINGERPRINT_ERROR_LOCKOUT == 7
FINGERPRINT_ERROR_VENDOR_BASE == 1000

FINGERPRINT_ACQUIRED_GOOD == 0
FINGERPRINT_ACQUIRED_PARTIAL == 1
FINGERPRINT_ACQUIRED_INSUFFICIENT == 2
FINGERPRINT_ACQUIRED_IMAGER_DIRTY == 3
FINGERPRINT_ACQUIRED_TOO_SLOW == 4
FINGERPRINT_ACQUIRED_TOO_FAST == 5
FINGERPRINT_ACQUIRED_VENDOR_BASE == 1000

\* the integer codes the filters are exercised on
Codes == (-MaxCode .. MaxCode)
         \cup ((FINGERPRINT_ERROR_VENDOR_BASE - VendorSpan) ..
               (FINGERPRINT_ERROR_VENDOR_BASE + VendorSpan))

(***************************************************************************)
(* Status Code Mapping: ErrorFilter, VendorErrorFilter,                    *)
(* VendorAcquiredFilter.                                                   *)
(***************************************************************************)
Abs(n) == IF n < 0 THEN -n ELSE n

\* faulty variant: the sign of the driver code is ignored
ErrorFilterAbs(error) ==
    CASE Abs(error) = 0 -> "SYS_OK"
      [] Abs(error) = 2 -> "SYS_ENOENT"
      [] Abs(error) = 4 -> "SYS_EINTR"
      [] Abs(error) = 5 -> "SYS_EIO"
      [] Abs(error) = 11 -> "SYS_EAGAIN"
      [] Abs(error) = 12 -> "SYS_ENOMEM"
      [] Abs(error) = 13 -> "SYS_EACCES"
      [] Abs(error) = 14 -> "SYS_EFAULT"
      [] Abs(error) = 16 -> "SYS_EBUSY"
      [] Abs(error) = 22 -> "SYS_EINVAL"
      [] Abs(error) = 28 -> "SYS_ENOSPC"
      [] Abs(error) = 110 -> "SYS_ETIMEDOUT"
      [] OTHER -> "SYS_UNKNOWN"

ErrorFilter(error) ==
    CASE error = 0 -> "SYS_OK"
      [] error = -2 -> "SYS_ENOENT"
      [] error = -4 -> "SYS_EINTR"
      [] error = -5 -> "SYS_EIO"
      [] error = -11 -> "SYS_EAGAIN"
      [] error = -12 -> "SYS_ENOMEM"
      [] error = -13 -> "SYS_EACCES"
      [] error = -14 -> "SYS_EFAULT"
      [] error = -16 -> "SYS_EBUSY"
      [] error = -22 -> "SYS_EINVAL"
      [] error = -28 -> "SYS_ENOSPC"
      [] error = -110 -> "SYS_ETIMEDOUT"
      [] OTHER -> "SYS_UNKNOWN"

\* the switch of VendorErrorFilter: the listed codes
VendorErrorListed(error) ==
    CASE error = FINGERPRINT_ERROR_HW_UNAVAILABLE -> "ERROR_HW_UNAVAILABLE"
      [] error = FINGERPRINT_ERROR_UNABLE_TO_PROCESS -> "ERROR_UNABLE_TO_PROCESS"
      [] error = FINGERPRINT_ERROR_TIMEOUT -> "ERROR_TIMEOUT"
      [] error = FINGERPRINT_ERROR_NO_SPACE -> "ERROR_NO_SPACE"
      [] error = FINGERPRINT_ERROR_CANCELED -> "ERROR_CANCELED"
      [] error = FINGERPRINT_ERROR_UNABLE_TO_REMOVE -> "ERROR_UNABLE_TO_REMOVE"
      [] error = FINGERPRINT_ERROR_LOCKOUT -> "ERROR_LOCKOUT"
      [] OTHER -> "default"

\* faulty variant: the vendor band starts one above the base (> instead of >=)
VendorErrorFilterStrict(error) ==
    IF VendorErrorListed(error) # "default"
    THEN [error |-> VendorErrorListed(error), vendorCode |-> 0]
    ELSE IF error > FINGERPRINT_ERROR_VENDOR_BASE
         THEN [error |-> "ERROR_VENDOR",
               vendorCode |-> error - FINGERPRINT_ERROR_VENDOR_BASE]
         ELSE [error |-> "ERROR_UNABLE_TO_PROCESS", vendorCode |-> 0]

\* the returned FingerprintError and the value left in *vendorCode
VendorErrorFilter(error) ==
    IF VendorErrorListed(error) # "default"
    THEN [error |-> VendorErrorListed(error), vendorCode |-> 0]
    ELSE IF error >= FINGERPRINT_ERROR_VENDOR_BASE
         THEN [error |-> "ERROR_VENDOR",
               vendorCode |-> error - FINGERPRINT_ERROR_VENDOR_BASE]
         ELSE [error |-> "ERROR_UNABLE_TO_PROCESS", vendorCode |-> 0]

VendorAcquiredListed(info) ==
    CASE info = FINGERPRINT_ACQUIRED_GOOD -> "ACQUIRED_GOOD"
      [] info = FINGERPRINT_ACQUIRED_PARTIAL -> "ACQUIRED_PARTIAL"
      [] info = FINGERPRINT_ACQUIRED_INSUFFICIENT -> "ACQUIRED_INSUFFICIENT"
      [] info = FINGERPRINT_ACQUIRED_IMAGER_DIRTY -> "ACQUIRED_IMAGER_DIRTY"
      [] info = FINGERPRINT_ACQUIRED_TOO_SLOW -> "ACQUIRED_TOO_SLOW"
      [] info = FINGERPRINT_ACQUIRED_TOO_FAST -> "ACQUIRED_TOO_FAST"
      [] OTHER -> "default"

\* faulty variant: the vendor base is not taken off the vendor code
VendorAcquiredFilterRaw(info) ==
    IF VendorAcquiredListed(info) # "default"
    THEN [info |-> VendorAcquiredListed(info), vendorCode |-> 0]
    ELSE IF info >= FINGERPRINT_ACQUIRED_VENDOR_BASE
         THEN [info |-> "ACQUIRED_VENDOR", vendorCode |-> info]
         ELSE [info |-> "ACQUIRED_INSUFFICIENT", vendorCode |-> 0]

\* the returned FingerprintAcquiredInfo and the value left in *vendorCode
VendorAcquiredFilter(info) ==
    IF VendorAcquiredListed(info) # "default"
    THEN [info |-> VendorAcquiredListed(info), vendorCode |-> 0]
    ELSE IF info >= FINGERPRINT_ACQUIRED_VENDOR_BASE
         THEN [info |-> "ACQUIRED_VENDOR",
               vendorCode |-> info - FINGERPRINT_ACQUIRED_VENDOR_BASE]
         ELSE [info |-> "ACQUIRED_INSUFFICIENT", vendorCode |-> 0]

(***************************************************************************)
(* Authentication Boost Notifier.  The power service is the environment:   *)
(* env.svcUp  - the service lookup and the extension cast give a binder,    *)
(* env.query  - outcome of isBoostSupported: "true", "false" (an ok reply   *)
(*              carrying that boolean), "tx_failed" (EX_TRANSACTION_FAILED) *)
(*              or "error" (any other exception),                           *)
(* env.set    - outcome of setBoost: "ok", "tx_failed" or "error".          *)
(* A cache state st is [checked, supported, aidl]; aidl is TRUE when        *)
(* mPowerHalExtAidl is not null.  Every function returns its return value,  *)
(* the cache state it leaves and the power-service calls it made.           *)
(***************************************************************************)
QueryOutcomes == {"true", "false", "tx_failed", "error"}
SetOutcomes == {"ok", "tx_failed", "error"}
PowerEnvs == [svcUp : BOOLEAN, query : QueryOutcomes, set : SetOutcomes]
NoEnv == [svcUp |-> FALSE, query |-> "unused", set |-> "unused"]

PwCall(fn, boost, durationMs) ==
    [fn |-> fn, boost |-> boost, durationMs |-> durationMs]

connectPowerHalExt(aidl, env) ==
    IF aidl
    THEN [ret |-> NO_ERROR, aidl |-> TRUE, calls |-> <<>>]
    ELSE IF env.svcUp
         THEN [ret |-> NO_ERROR, aidl |-> TRUE,
               calls |-> <<PwCall("getService", "", 0)>>]
         ELSE [ret |-> -EINVAL, aidl |-> FALSE,
               calls |-> <<PwCall("getService", "", 0)>>]

\* faulty variant: a failed transaction is reported like any other error and the
\* connection is kept
checkPowerHalExtBoostSupportKeep(boost, aidl, env) ==
    IF boost = ""
    THEN [ret |-> -EINVAL, aidl |-> aidl, calls |-> <<>>]
    ELSE LET c == connectPowerHalExt(aidl, env)
             calls == Append(c.calls, PwCall("isBoostSupported", boost, 0))
         IN  IF c.ret # NO_ERROR
             THEN [ret |-> -EINVAL, aidl |-> c.aidl, calls |-> c.calls]
             ELSE CASE env.query = "true" ->
                         [ret |-> NO_ERROR, aidl |-> TRUE, calls |-> calls]
                    [] env.query = "false" ->
                         [ret |-> -EOPNOTSUPP, aidl |-> TRUE, calls |-> calls]
                    [] OTHER ->
                         [ret |-> -EINVAL, aidl |-> TRUE, calls |-> calls]

checkPowerHalExtBoostSupport(boost, aidl, env) ==
    IF boost = ""
    THEN [ret |-> -EINVAL, aidl |-> aidl, calls |-> <<>>]
    ELSE LET c == connectPowerHalExt(aidl, env)
             calls == Append(c.calls, PwCall("isBoostSupported", boost, 0))
         IN  IF c.ret # NO_ERROR
             THEN [ret |-> -EINVAL, aidl |-> c.aidl, calls |-> c.calls]
             ELSE CASE env.query = "tx_failed" ->
                         [ret |-> -ENOTCONN, aidl |-> FALSE, calls |-> calls]
                    [] env.query = "true" ->
                         [ret |-> NO_ERROR, aidl |-> TRUE, calls |-> calls]
                    [] env.query = "false" ->
                         [ret |-> -EOPNOTSUPP, aidl |-> TRUE, calls |-> calls]
                    [] OTHER ->
                         [ret |-> -EINVAL, aidl |-> TRUE, calls |-> calls]

sendPowerHalExtBoost(boost, durationMs, aidl, env) ==
    IF boost = ""
    THEN [ret |-> -EINVAL, aidl |-> aidl, calls |-> <<>>]
    ELSE LET c == connectPowerHalExt(aidl, env)
             calls == Append(c.calls, PwCall("setBoost", boost, durationMs))
         IN  IF c.ret # NO_ERROR
             THEN [ret |-> -EINVAL, aidl |-> c.aidl, calls |-> c.calls]
             ELSE CASE env.set = "tx_failed" ->
                         [ret |-> -ENOTCONN, aidl |-> FALSE, calls |-> calls]
                    [] env.set = "ok" ->
                         [ret |-> NO_ERROR, aidl |-> TRUE, calls |-> calls]
                    [] OTHER ->
                         [ret |-> -EINVAL, aidl |-> TRUE, calls |-> calls]

\* faulty variant: only a cached positive answer short-cuts the check
isBoostHintSupportedRecheck(st, env) ==
    IF st.checked /\ st.supported
    THEN [ret |-> NO_ERROR,
          checked |-> st.checked, supported |-> st.supported,
          aidl |-> st.aidl, calls |-> <<>>]
    ELSE LET r == checkPowerHalExtBoostSupport(kBoostHint, st.aidl, env)
         IN  CASE r.ret = NO_ERROR ->
                    [ret |-> r.ret, checked |-> TRUE, supported |-> TRUE,
                     aidl |-> r.aidl, calls |-> r.calls]
               [] r.ret = -EOPNOTSUPP ->
                    [ret |-> r.ret, checked |-> TRUE, supported |-> st.supported,
                     aidl |-> r.aidl, calls |-> r.calls]
               [] OTHER ->
                    [ret |-> r.ret, checked |-> st.checked,
                     supported |-> st.supported,
                     aidl |-> r.aidl, calls |-> r.calls]

\* faulty variant: a check that failed is cached like a negative answer
isBoostHintSupportedCacheFailure(st, env) ==
    IF st.checked
    THEN [ret |-> IF st.supported THEN NO_ERROR ELSE -EOPNOTSUPP,
          checked |-> st.checked, supported |-> st.supported,
          aidl |-> st.aidl, calls |-> <<>>]
    ELSE LET r == checkPowerHalExtBoostSupport(kBoostHint, st.aidl, env)
         IN  IF r.ret = NO_ERROR
             THEN [ret |-> r.ret, checked |-> TRUE, supported |-> TRUE,
                   aidl |-> r.aidl, calls |-> r.calls]
             ELSE [ret |-> r.ret, checked |-> TRUE,
                   supported |-> st.supported,
                   aidl |-> r.aidl, calls |-> r.calls]

isBoostHintSupported(st, env) ==
    IF st.checked
    THEN [ret |-> IF st.supported THEN NO_ERROR ELSE -EOPNOTSUPP,
          checked |-> st.checked, supported |-> st.supported,
          aidl |-> st.aidl, calls |-> <<>>]
    ELSE LET r == checkPowerHalExtBoostSupport(kBoostHint, st.aidl, env)
         IN  CASE r.ret = NO_ERROR ->
                    [ret |-> r.ret, checked |-> TRUE, supported |-> TRUE,
                     aidl |-> r.aidl, calls |-> r.calls]
               [] r.ret = -EOPNOTSUPP ->
                    [ret |-> r.ret, checked |-> TRUE, supported |-> st.supported,
                     aidl |-> r.aidl, calls |-> r.calls]
               [] OTHER ->
                    [ret |-> r.ret, checked |-> st.checked,
                     supported |-> st.supported,
                     aidl |-> r.aidl, calls |-> r.calls]

\* faulty variant: only a cached negative answer stops the request
sendAuthenticatedBoostHintEager(st, env) ==
    LET s == isBoostHintSupported(st, env)
    IN  IF st.checked /\ ~st.supported
        THEN s
        ELSE LET b == sendPowerHalExtBoost(kBoostHint, kBoostDurationMs,
                                            s.aidl, env)
             IN  [ret |-> b.ret, checked |-> s.checked,
                  supported |-> s.supported, aidl |-> b.aidl,
                  calls |-> s.calls \o b.calls]

sendAuthenticatedBoostHint(st, env) ==
    LET s == isBoostHintSupported(st, env)
    IN  IF s.ret # NO_ERROR
        THEN s
        ELSE LET b == sendPowerHalExtBoost(kBoostHint, kBoostDurationMs,
                                            s.aidl, env)
             IN  [ret |-> b.ret, checked |-> s.checked,
                  supported |-> s.supported, aidl |-> b.aidl,
                  calls |-> s.calls \o b.calls]

(***************************************************************************)
(* Module discovery.                                                       *)
(***************************************************************************)
kVersion == 513

kModules ==
    << [class_name |-> "fpc", fod |-> FALSE],
       [class_name |-> "fpc_fod", fod |-> TRUE],
       [class_name |-> "goodix", fod |-> FALSE],
       [class_name |-> "goodix_fod", fod |-> TRUE],
       [class_name |-> "goodix_fod6", fod |-> TRUE],
       [class_name |-> "silead", fod |-> FALSE],
       [class_name |-> "syna", fod |-> TRUE] >>

NumModules == Len(kModules)

\* What the hardware-module registry and the vendor library answer when a
\* module is opened: the error of hw_get_module_by_class, whether the module
\* pointer and its open method are set, the error of open, the version of
\* the device and the error of set_notify.
HalEnvs ==
    [getErr : {0, -2}, hwMdl : BOOLEAN, hasOpen : BOOLEAN,
     openErr : {0, -1}, version : {kVersion, kVersion + 1},
     notifyErr : {0, -1}]

\* openHal: the device handle of module i (i itself; NULL is nullptr)
openHal(i, hal) ==
    IF hal.getErr # 0 THEN NULL
    ELSE IF ~hal.hwMdl THEN NULL
    ELSE IF ~hal.hasOpen THEN NULL
    ELSE IF hal.openErr # 0 THEN NULL
    ELSE IF kVersion # hal.version THEN NULL
    ELSE IF hal.notifyErr # 0 THEN NULL
    ELSE i

(***************************************************************************)
(* State.                                                                  *)
(***************************************************************************)
VARIABLES
    \* BiometricsFingerprint members
    mClientCallback,             \* 0 (nullptr) or the id of a client callback
    mDevice,                     \* 0 (nullptr) or the handle of the open device
    mFod,
    mBoostHintIsSupported,
    mBoostHintSupportIsChecked,
    mPowerHalExtAidl,            \* TRUE when the connection is not null
    \* control
    phase,                       \* "open", "fod" (constructor), "run"
    ctorIdx,                     \* constructor loop: next entry of kModules
    watcher,                     \* FOD thread: "none", "start", "poll", "ended"
    nullDeref,                   \* a null mDevice was dereferenced
    \* what the outside sees
    openAttempts,                \* the calls of openHal, in order: the entry
                                 \* of kModules and whether it opened
    propVendor,                  \* persist.vendor.sys.fp.vendor
    propFod,                     \* ro.hardware.fp.fod
    last,                        \* the latest operation and its effects
    \* filter harness
    fin, fres,
    \* variant selector
    hwc, sku, vpc, vidx, vprops,
    \* threads of the host and of the driver
    mClientCallbackMutex,        \* the thread that holds the mutex, or "free"
    pc,                          \* where each thread is
    loc,                         \* each thread's call: arguments and locals
    notified,                    \* calls of notify made
    stores,                      \* assignments made to mClientCallback
    returned                     \* the latest of them whose setNotify returned

bridge == <<mClientCallback, mDevice, mFod, mBoostHintIsSupported,
            mBoostHintSupportIsChecked, mPowerHalExtAidl>>
ctl == <<phase, ctorIdx, watcher, nullDeref>>
out == <<openAttempts, propVendor, propFod>>
filt == <<fin, fres>>
variant == <<hwc, sku, vpc, vidx, vprops>>
conc == <<mClientCallbackMutex, pc, loc, notified, stores, returned>>
vars == <<bridge, ctl, out, last, filt, variant, conc>>

NoMsg == [type |-> "none", code |-> 0, fid |-> 0, gid |-> 0, rem |-> 0]

\* the record kept of an operation: its name and inputs, what it returned
\* and what it called
NoObs ==
    [op |-> "none", msg |-> NoMsg, cbOk |-> FALSE, env |-> NoEnv,
     pathLen |-> 0, writable |-> FALSE, arg |-> 0,
     status |-> "none", value |-> 0, flag |-> FALSE, drvRet |-> 0,
     wake |-> [pollRc |-> 0, seekRc |-> 0, readRc |-> 0, c |-> ""],
     driverCalls |-> <<>>, cbCalls |-> <<>>,
     boostAttempts |-> 0, boostRet |-> 0, pwCalls |-> <<>>]

DrvCall(fn, a, b) == [fn |-> fn, a |-> a, b |-> b]

BoostState ==
    [checked |-> mBoostHintSupportIsChecked,
     supported |-> mBoostHintIsSupported, aidl |-> mPowerHalExtAidl]

\* binder threads of the host calling setNotify, driver threads calling
\* notify
HostThreads == {"h1", "h2"}
DriverThreads == {"d1", "d2"}
Threads == HostThreads \cup DriverThreads

\* a thread that is in no call
NoLoc ==
    [arg |-> 0, msg |-> NoMsg, since |-> 0,
     atLock |-> 0, delivered |-> FALSE, target |-> 0, stored |-> 0,
     st |-> [checked |-> FALSE, supported |-> FALSE, aidl |-> FALSE]]

ConcIdle ==
    /\ mClientCallbackMutex = "free"
    /\ pc = [t \in Threads |-> "idle"]
    /\ loc = [t \in Threads |-> NoLoc]
    /\ notified = 0
    /\ stores = 0
    /\ returned = 0

FilterIdle == fin = 0 /\ fres = [fn |-> "none", name |-> "none", vendorCode |-> 0]
VariantIdle == hwc = "" /\ sku = "" /\ vpc = "idle" /\ vidx = 1 /\ vprops = <<>>

(***************************************************************************)
(* Constructor.                                                            *)
(***************************************************************************)
\* mFod is not in the constructor's initializer list: it holds whatever the
\* allocation held until a module opens.
BridgeInit ==
    /\ mClientCallback = NULL
    /\ mDevice = NULL
    /\ mFod \in BOOLEAN
    /\ mBoostHintIsSupported = FALSE
    /\ mBoostHintSupportIsChecked = FALSE
    /\ mPowerHalExtAidl = FALSE
    /\ phase = "open"
    /\ ctorIdx = 1
    /\ watcher = "none"
    /\ nullDeref = FALSE
    /\ openAttempts = <<>>
    /\ propVendor = ""
    /\ propFod = FALSE
    /\ last = NoObs
    /\ ConcIdle

\* faulty variant: the loop does not stop at the first module that opens
LoopEndsNever(dev, i) == i = NumModules

\* the loop over kModules ends after entry i: break on success, or the
\* table is exhausted
LoopEnds(dev, i) == dev # NULL \/ i = NumModules

\* one iteration of the loop over kModules
OpenNextModule ==
    /\ phase = "open"
    /\ \E hal \in HalEnvs :
         LET dev == openHal(ctorIdx, hal)
         IN  /\ mDevice' = dev
             /\ openAttempts' = Append(openAttempts,
                                        [i |-> ctorIdx, opened |-> dev # NULL])
             /\ IF dev # NULL
                THEN /\ mFod' = kModules[ctorIdx].fod
                     /\ propVendor' = kModules[ctorIdx].class_name
                ELSE UNCHANGED <<mFod, propVendor>>
             /\ IF LoopEnds(dev, ctorIdx)
                THEN phase' = "fod" /\ UNCHANGED ctorIdx
                ELSE ctorIdx' = ctorIdx + 1 /\ UNCHANGED phase
    /\ UNCHANGED <<mClientCallback, mBoostHintIsSupported,
                   mBoostHintSupportIsChecked, mPowerHalExtAidl,
                   watcher, nullDeref, propFod, last, filt, variant, conc>>

\* the rest of the constructor: the FOD watcher thread is started
FinishConstruction ==
    /\ phase = "fod"
    /\ phase' = "run"
    /\ IF mFod
       THEN watcher' = "start" /\ propFod' = TRUE
       ELSE UNCHANGED <<watcher, propFod>>
    /\ UNCHANGED <<bridge, ctorIdx, nullDeref, openAttempts, propVendor,
                   last, filt, variant, conc>>

(***************************************************************************)
(* Host operations.  The service is registered once the constructor has    *)
(* returned; a call through a null mDevice ends the process.  Every        *)
(* operation is one step that leaves its record in last; the record is     *)
(* taken (Return) before the next operation is recorded.                   *)
(***************************************************************************)
Running == phase = "run" /\ ~nullDeref /\ last = NoObs

\* the operation recorded in last has returned to its caller
Return ==
    /\ last # NoObs
    /\ ~nullDeref
    /\ last' = NoObs
    /\ UNCHANGED <<bridge, ctl, out, filt, variant, conc>>

\* return codes of the driver's entry points
DriverRets == {0, -EINVAL, -1, EINVAL}

\* the device identifier: reinterpret_cast<uint64_t>(mDevice)
DevId(dev) == dev

\* mDevice-> on a null mDevice
DerefNull(obs) ==
    /\ nullDeref' = TRUE
    /\ last' = obs
    /\ UNCHANGED <<bridge, phase, ctorIdx, watcher, out, filt, variant, conc>>

\* an operation that changes no member of the bridge
Observe(obs) ==
    /\ last' = obs
    /\ UNCHANGED <<bridge, ctl, out, filt, variant, conc>>

\* one call of a driver entry point whose code goes through ErrorFilter
Forward(opname, fn, a, b) ==
    IF mDevice = NULL
    THEN DerefNull([NoObs EXCEPT !.op = opname])
    ELSE \E r \in DriverRets :
           Observe([NoObs EXCEPT !.op = opname, !.drvRet = r,
                                 !.status = ErrorFilter(r),
                                 !.driverCalls = <<DrvCall(fn, a, b)>>])

\* one call of a driver entry point whose number is returned as it is
ForwardId(opname, fn) ==
    IF mDevice = NULL
    THEN DerefNull([NoObs EXCEPT !.op = opname])
    ELSE \E v \in 0 .. MaxId :
           Observe([NoObs EXCEPT !.op = opname, !.drvRet = v, !.value = v,
                                 !.driverCalls = <<DrvCall(fn, 0, 0)>>])

\* faulty variant: the value returned is a token of the callback passed
setNotifyToken ==
    /\ Running
    /\ \E clientCallback \in 0 .. MaxCallbacks :
         /\ mClientCallback' = clientCallback
         /\ last' = [NoObs EXCEPT !.op = "setNotify", !.arg = clientCallback,
                                  !.value = clientCallback]
    /\ UNCHANGED <<mDevice, mFod, mBoostHintIsSupported,
                   mBoostHintSupportIsChecked, mPowerHalExtAidl,
                   ctl, out, filt, variant, conc>>

setNotify ==
    /\ Running
    /\ \E clientCallback \in 0 .. MaxCallbacks :
         /\ mClientCallback' = clientCallback
         /\ last' = [NoObs EXCEPT !.op = "setNotify", !.arg = clientCallback,
                                  !.value = DevId(mDevice)]
    /\ UNCHANGED <<mDevice, mFod, mBoostHintIsSupported,
                   mBoostHintSupportIsChecked, mPowerHalExtAidl,
                   ctl, out, filt, variant, conc>>

preEnroll == Running /\ ForwardId("preEnroll", "pre_enroll")

enroll ==
    /\ Running
    /\ \E gid \in 0 .. MaxGid : Forward("enroll", "enroll", gid, 0)

postEnroll == Running /\ Forward("postEnroll", "post_enroll", 0, 0)

getAuthenticatorId ==
    Running /\ ForwardId("getAuthenticatorId", "get_authenticator_id")

cancel == Running /\ Forward("cancel", "cancel", 0, 0)

enumerate == Running /\ Forward("enumerate", "enumerate", 0, 0)

remove ==
    /\ Running
    /\ \E gid \in 0 .. MaxGid, fid \in 0 .. MaxFid :
         Forward("remove", "remove", gid, fid)

\* lengths of the store paths the host passes
PathLens == (0 .. MaxShortPath) \cup ((PATH_MAX - 1) .. (PATH_MAX + MaxOverPath))

\* faulty variant: a path of exactly PATH_MAX bytes is let through
BadPathLengthOffByOne(size) == size > PATH_MAX \/ size <= 0

BadPathLength(size) == size >= PATH_MAX \/ size <= 0

\* writable: access(storePath, W_OK) returns 0
setActiveGroup ==
    /\ Running
    /\ \E gid \in 0 .. MaxGid, pathLen \in PathLens, writable \in BOOLEAN :
         LET o == [NoObs EXCEPT !.op = "setActiveGroup", !.arg = gid,
                                !.pathLen = pathLen, !.writable = writable]
         IN  IF BadPathLength(pathLen)
             THEN Observe([o EXCEPT !.status = "SYS_EINVAL"])
             ELSE IF ~writable
             THEN Observe([o EXCEPT !.status = "SYS_EINVAL"])
             ELSE IF mDevice = NULL
             THEN DerefNull(o)
             ELSE \E r \in DriverRets :
                    Observe([o EXCEPT !.drvRet = r, !.status = ErrorFilter(r),
                                      !.driverCalls =
                                          <<DrvCall("set_active_group", gid,
                                                    pathLen)>>])

authenticate ==
    /\ Running
    /\ \E gid \in 0 .. MaxGid : Forward("authenticate", "authenticate", gid, 0)

isUdfps ==
    /\ Running
    /\ \E sensorId \in 0 .. MaxSensorId :
         Observe([NoObs EXCEPT !.op = "isUdfps", !.arg = sensorId,
                               !.flag = mFod])

onFingerDown == Running /\ Observe([NoObs EXCEPT !.op = "onFingerDown"])

onFingerUp == Running /\ Observe([NoObs EXCEPT !.op = "onFingerUp"])

\* extCmd returns the driver's number as it is
extCmdCall(opname, cmd, param) ==
    IF mDevice = NULL
    THEN DerefNull([NoObs EXCEPT !.op = opname])
    ELSE \E r \in DriverRets :
           Observe([NoObs EXCEPT !.op = opname, !.drvRet = r, !.value = r,
                                 !.driverCalls =
                                     <<DrvCall("extCmd", cmd, param)>>])

extCmd ==
    /\ Running
    /\ \E cmd \in {0, COMMAND_NIT}, param \in {PARAM_NIT_NONE, PARAM_NIT_FOD} :
         extCmdCall("extCmd", cmd, param)

(***************************************************************************)
(* notify: the driver's callback.  It holds mClientCallbackMutex from its  *)
(* first statement to its return, and setNotify holds it for its whole     *)
(* body, so each is one step here.                                         *)
(***************************************************************************)
MsgCodes == {-1, 0, FINGERPRINT_ERROR_CANCELED, FINGERPRINT_ERROR_VENDOR_BASE + 1}

Ids == [fid : 0 .. MaxFid, gid : 0 .. MaxGid, rem : 0 .. MaxRem]

\* fingerprint_msg_t: the type tag and the member of the union it selects
Msgs ==
    {[type |-> t, code |-> c, fid |-> 0, gid |-> 0, rem |-> 0] :
        t \in {"FINGERPRINT_ERROR", "FINGERPRINT_ACQUIRED"}, c \in MsgCodes}
    \cup
    {[type |-> t, code |-> 0, fid |-> i.fid, gid |-> i.gid, rem |-> i.rem] :
        t \in {"FINGERPRINT_TEMPLATE_ENROLLING", "FINGERPRINT_TEMPLATE_REMOVED",
               "FINGERPRINT_TEMPLATE_ENUMERATING"}, i \in Ids}
    \cup
    {[type |-> "FINGERPRINT_AUTHENTICATED", code |-> 0, fid |-> f, gid |-> g,
      rem |-> 0] : f \in 0 .. MaxFid, g \in 0 .. MaxGid}
    \cup
    {[NoMsg EXCEPT !.type = "OTHER"]}

\* faulty variant: finger id and group id change places
CbCallSwapped(cb, kind, devId, name, vendorCode, fid, gid, rem, tokenLen) ==
    [cb |-> cb, kind |-> kind, devId |-> devId, name |-> name,
     vendorCode |-> vendorCode, fid |-> gid, gid |-> fid, rem |-> rem,
     tokenLen |-> tokenLen]

\* one invocation of a method of the client callback cb
CbCall(cb, kind, devId, name, vendorCode, fid, gid, rem, tokenLen) ==
    [cb |-> cb, kind |-> kind, devId |-> devId, name |-> name,
     vendorCode |-> vendorCode, fid |-> fid, gid |-> gid, rem |-> rem,
     tokenLen |-> tokenLen]

\* no boost-hint attempt: the cache is left as it is
NoBoost(st) ==
    [ret |-> 0, checked |-> st.checked, supported |-> st.supported,
     aidl |-> st.aidl, calls |-> <<>>]

Delivered(calls, st) ==
    [cbCalls |-> calls, boostAttempts |-> 0, boost |-> NoBoost(st)]

\* faulty variant: the token and the boost hint do not depend on the
\* finger id
AuthenticatedAnyFinger(msg, cb, dev, st, cbOk, env) ==
    LET call == CbCall(cb, "onAuthenticated", DevId(dev), "", 0,
                       msg.fid, msg.gid, 0, HatSize)
    IN  IF ~cbOk
        THEN Delivered(<<call>>, st)
        ELSE [cbCalls |-> <<call>>, boostAttempts |-> 1,
              boost |-> sendAuthenticatedBoostHint(st, env)]

\* faulty variant: the boost hint is sent whether or not the delivery
\* succeeded
AuthenticatedBoostAlways(msg, cb, dev, st, cbOk, env) ==
    IF msg.fid # 0
    THEN [cbCalls |-> <<CbCall(cb, "onAuthenticated", DevId(dev), "", 0,
                               msg.fid, msg.gid, 0, HatSize)>>,
          boostAttempts |-> 1,
          boost |-> sendAuthenticatedBoostHint(st, env)]
    ELSE Delivered(<<CbCall(cb, "onAuthenticated", DevId(dev), "", 0,
                            msg.fid, msg.gid, 0, 0)>>, st)

\* case FINGERPRINT_AUTHENTICATED
Authenticated(msg, cb, dev, st, cbOk, env) ==
    IF msg.fid # 0
    THEN LET call == CbCall(cb, "onAuthenticated", DevId(dev), "", 0,
                            msg.fid, msg.gid, 0, HatSize)
         IN  IF ~cbOk
             THEN Delivered(<<call>>, st)
             ELSE [cbCalls |-> <<call>>, boostAttempts |-> 1,
                   boost |-> sendAuthenticatedBoostHint(st, env)]
    ELSE Delivered(<<CbCall(cb, "onAuthenticated", DevId(dev), "", 0,
                            msg.fid, msg.gid, 0, 0)>>, st)

\* the switch on msg->type
Dispatch(msg, cb, dev, st, cbOk, env) ==
    LET devId == DevId(dev)
    IN  CASE msg.type = "FINGERPRINT_ERROR" ->
               LET r == VendorErrorFilter(msg.code)
               IN  Delivered(<<CbCall(cb, "onError", devId, r.error,
                                      r.vendorCode, 0, 0, 0, 0)>>, st)
          [] msg.type = "FINGERPRINT_ACQUIRED" ->
               LET r == VendorAcquiredFilter(msg.code)
               IN  Delivered(<<CbCall(cb, "onAcquired", devId, r.info,
                                      r.vendorCode, 0, 0, 0, 0)>>, st)
          [] msg.type = "FINGERPRINT_TEMPLATE_ENROLLING" ->
               Delivered(<<CbCall(cb, "onEnrollResult", devId, "", 0,
                                  msg.fid, msg.gid, msg.rem, 0)>>, st)
          [] msg.type = "FINGERPRINT_TEMPLATE_REMOVED" ->
               Delivered(<<CbCall(cb, "onRemoved", devId, "", 0,
                                  msg.fid, msg.gid, msg.rem, 0)>>, st)
          [] msg.type = "FINGERPRINT_AUTHENTICATED" ->
               Authenticated(msg, cb, dev, st, cbOk, env)
          [] msg.type = "FINGERPRINT_TEMPLATE_ENUMERATING" ->
               Delivered(<<CbCall(cb, "onEnumerate", devId, "", 0,
                                  msg.fid, msg.gid, msg.rem, 0)>>, st)
          [] OTHER -> Delivered(<<>>, st)

\* faulty variant: the message is dispatched whether or not a callback is
\* registered
notifyUnguarded(msg, cb, dev, st, cbOk, env) ==
    Dispatch(msg, cb, dev, st, cbOk, env)

\* what notify calls and the boost cache it leaves
notify(msg, cb, dev, st, cbOk, env) ==
    IF cb = NULL
    THEN Delivered(<<>>, st)
    ELSE Dispatch(msg, cb, dev, st, cbOk, env)

\* the message reaches sendAuthenticatedBoostHint
Boosts(msg, cb, cbOk) ==
    /\ cb # NULL
    /\ msg.type = "FINGERPRINT_AUTHENTICATED"
    /\ msg.fid # 0
    /\ cbOk

\* the driver delivers a message; cbOk: the transaction to the client
\* succeeds (isOk)
Notify ==
    /\ Running
    /\ mDevice # NULL
    /\ \E msg \in Msgs,
          cbOk \in (IF mClientCallback = NULL THEN {FALSE} ELSE BOOLEAN) :
         \E env \in (IF Boosts(msg, mClientCallback, cbOk)
                     THEN PowerEnvs ELSE {NoEnv}) :
           LET n == notify(msg, mClientCallback, mDevice, BoostState, cbOk, env)
           IN  /\ mBoostHintSupportIsChecked' = n.boost.checked
               /\ mBoostHintIsSupported' = n.boost.supported
               /\ mPowerHalExtAidl' = n.boost.aidl
               /\ last' = [NoObs EXCEPT !.op = "notify", !.msg = msg,
                                        !.cbOk = cbOk, !.env = env,
                                        !.cbCalls = n.cbCalls,
                                        !.boostAttempts = n.boostAttempts,
                                        !.boostRet = n.boost.ret,
                                        !.pwCalls = n.boost.calls]
    /\ UNCHANGED <<mClientCallback, mDevice, mFod, ctl, out, filt, variant, conc>>

(***************************************************************************)
(* FOD watcher thread.                                                     *)
(***************************************************************************)
\* readBool: seekRc and readRc are what lseek and read return, c the
\* character read
readBool(seekRc, readRc, c) ==
    IF seekRc # 0 THEN FALSE
    ELSE IF readRc # 1 THEN FALSE
    ELSE c # "0"

\* open(FOD_UI_PATH): the thread returns when it fails
WatcherOpen ==
    /\ watcher = "start"
    /\ ~nullDeref
    /\ \E fdOk \in BOOLEAN :
         watcher' = IF fdOk THEN "poll" ELSE "ended"
    /\ UNCHANGED <<bridge, phase, ctorIdx, nullDeref, out, last, filt, variant, conc>>

\* what one return of poll and the read after it can give
Wakes ==
    {[pollRc |-> -1, seekRc |-> 0, readRc |-> 0, c |-> ""],
     [pollRc |-> 1, seekRc |-> -1, readRc |-> 0, c |-> ""],
     [pollRc |-> 1, seekRc |-> 0, readRc |-> 0, c |-> ""],
     [pollRc |-> 1, seekRc |-> 0, readRc |-> -1, c |-> ""]}
    \cup
    {[pollRc |-> 1, seekRc |-> 0, readRc |-> 1, c |-> ch] :
        ch \in {"0", "1", "x"}}

\* one iteration of the watcher's loop
WatcherWake ==
    /\ watcher = "poll"
    /\ Running
    /\ \E w \in Wakes :
         IF w.pollRc < 0
         THEN Observe([NoObs EXCEPT !.op = "watcherWake", !.wake = w])
         ELSE LET param == IF readBool(w.seekRc, w.readRc, w.c)
                           THEN PARAM_NIT_FOD ELSE PARAM_NIT_NONE
              IN  IF mDevice = NULL
                  THEN DerefNull([NoObs EXCEPT !.op = "watcherWake", !.wake = w])
                  ELSE \E r \in DriverRets :
                         Observe([NoObs EXCEPT
                                    !.op = "watcherWake", !.wake = w,
                                    !.drvRet = r, !.value = r,
                                    !.driverCalls =
                                        <<DrvCall("extCmd", COMMAND_NIT,
                                                  param)>>])

(***************************************************************************)
(* The bridge.                                                             *)
(***************************************************************************)
Init == BridgeInit /\ FilterIdle /\ VariantIdle

Next ==
    \/ OpenNextModule
    \/ FinishConstruction
    \/ setNotify
    \/ preEnroll
    \/ enroll
    \/ postEnroll
    \/ getAuthenticatorId
    \/ cancel
    \/ enumerate
    \/ remove
    \/ setActiveGroup
    \/ authenticate
    \/ isUdfps
    \/ onFingerDown
    \/ onFingerUp
    \/ extCmd
    \/ Notify
    \/ WatcherOpen
    \/ WatcherWake
    \/ Return

Spec == Init /\ [][Next]_vars

(***************************************************************************)
(* The boost notifier on its own: isBoostHintSupported and                 *)
(* sendAuthenticatedBoostHint called in any number and order on a bridge   *)
(* whose first module opened.                                              *)
(***************************************************************************)
BoostInit ==
    /\ mClientCallback = NULL
    /\ mDevice = 1
    /\ mFod = kModules[1].fod
    /\ mBoostHintIsSupported = FALSE
    /\ mBoostHintSupportIsChecked = FALSE
    /\ mPowerHalExtAidl = FALSE
    /\ phase = "run"
    /\ ctorIdx = 1
    /\ watcher = "none"
    /\ nullDeref = FALSE
    /\ openAttempts = <<[i |-> 1, opened |-> TRUE]>>
    /\ propVendor = kModules[1].class_name
    /\ propFod = FALSE
    /\ last = NoObs
    /\ ConcIdle
    /\ FilterIdle
    /\ VariantIdle

\* the cache is set to what the function left and the call is recorded
BoostCall(opname, env, r, attempts) ==
    /\ mBoostHintSupportIsChecked' = r.checked
    /\ mBoostHintIsSupported' = r.supported
    /\ mPowerHalExtAidl' = r.aidl
    /\ last' = [NoObs EXCEPT !.op = opname, !.env = env,
                             !.boostAttempts = attempts,
                             !.boostRet = r.ret, !.pwCalls = r.calls]
    /\ UNCHANGED <<mClientCallback, mDevice, mFod, ctl, out, filt, variant, conc>>

CallIsBoostHintSupported ==
    /\ Running
    /\ \E env \in {e \in PowerEnvs : e.set = "ok"} :
         BoostCall("isBoostHintSupported", env,
                   isBoostHintSupported(BoostState, env), 0)

CallSendAuthenticatedBoostHint ==
    /\ Running
    /\ \E env \in PowerEnvs :
         BoostCall("sendAuthenticatedBoostHint", env,
                   sendAuthenticatedBoostHint(BoostState, env), 1)

BoostNext ==
    \/ CallIsBoostHintSupported
    \/ CallSendAuthenticatedBoostHint
    \/ Return

SpecBoost == BoostInit /\ [][BoostNext]_vars

(***************************************************************************)
(* The filters on their own: one code drawn from Codes, one filter         *)
(* applied to it.                                                          *)
(***************************************************************************)
FilterInit ==
    /\ BridgeInit
    /\ mFod = FALSE
    /\ fin \in Codes
    /\ fres = [fn |-> "none", name |-> "none", vendorCode |-> 0]
    /\ VariantIdle

Applied(fn, name, vendorCode) ==
    /\ fres.fn = "none"
    /\ fres' = [fn |-> fn, name |-> name, vendorCode |-> vendorCode]
    /\ UNCHANGED <<bridge, ctl, out, last, fin, variant, conc>>

ApplyErrorFilter == Applied("ErrorFilter", ErrorFilter(fin), 0)

ApplyVendorErrorFilter ==
    Applied("VendorErrorFilter", VendorErrorFilter(fin).error,
            VendorErrorFilter(fin).vendorCode)

ApplyVendorAcquiredFilter ==
    Applied("VendorAcquiredFilter", VendorAcquiredFilter(fin).info,
            VendorAcquiredFilter(fin).vendorCode)

FilterNext ==
    \/ ApplyErrorFilter
    \/ ApplyVendorErrorFilter
    \/ ApplyVendorAcquiredFilter

SpecFilter == FilterInit /\ [][FilterNext]_vars

(***************************************************************************)
(* Variant selector (init_xiaomi_raphael.cpp).                             *)
(***************************************************************************)
raphaelin_info ==
    [hwc_value |-> "INDIA", sku_value |-> "",
     brand |-> "Xiaomi", device |-> "raphaelin",
     marketname |-> "Redmi K20 Pro", model |-> "MZB7751IN",
     build_fingerprint |->
         "Xiaomi/raphaelin/raphaelin:11/RKQ1.200826.002/V12.5.1.0.RFKINXM:user/release-keys",
     nfc |-> FALSE]

raphael_global_info ==
    [hwc_value |-> "GLOBAL", sku_value |-> "",
     brand |-> "Xiaomi", device |-> "raphael",
     marketname |-> "Mi 9T Pro", model |-> "M1903F11G",
     build_fingerprint |->
         "Xiaomi/raphael/raphael:11/RKQ1.200826.002/V12.5.2.0.RFKMIXM:user/release-keys",
     nfc |-> TRUE]

raphael_info ==
    [hwc_value |-> "", sku_value |-> "",
     brand |-> "Xiaomi", device |-> "raphael",
     marketname |-> "Redmi K20 Pro", model |-> "M1903F11A",
     build_fingerprint |->
         "Xiaomi/raphael/raphael:11/RKQ1.200826.002/V12.5.6.0.RFKCNXM:user/release-keys",
     nfc |-> TRUE]

\* faulty variant: the fallback record is declared first
variantsFallbackFirst == <<raphael_info, raphaelin_info, raphael_global_info>>

variants == <<raphaelin_info, raphael_global_info, raphael_info>>

\* values of the hardware-id and SKU properties read at boot
HwcValues == {"INDIA", "GLOBAL", "", "CN", "india", "GLOBAL_EU", "IN"}
SkuValues == {"", "raphael", "raphaelin", "INDIA", "GLOBAL"}

\* a record matches when each of its non-empty match fields equals the
\* identifier read
VariantMatches(v, hwcRead, skuRead) ==
    /\ (v.hwc_value = "" \/ v.hwc_value = hwcRead)
    /\ (v.sku_value = "" \/ v.sku_value = skuRead)

VariantInit ==
    /\ BridgeInit
    /\ mFod = FALSE
    /\ FilterIdle
    /\ hwc \in HwcValues
    /\ sku \in SkuValues
    /\ vpc = "idle"
    /\ vidx = 1
    /\ vprops = <<>>

\* vendor_load_properties is entered: search_variant starts its scan
vendor_load_properties ==
    /\ vpc = "idle"
    /\ vpc' = "search"
    /\ UNCHANGED <<bridge, ctl, out, last, filt, conc, hwc, sku, vidx, vprops>>

\* search_variant looks at one record of the table: the first match is
\* applied and ends the scan
search_variant ==
    /\ vpc = "search"
    /\ IF vidx > Len(variants)
       THEN vpc' = "heap" /\ UNCHANGED <<vidx, vprops>>
       ELSE IF VariantMatches(variants[vidx], hwc, sku)
            THEN /\ vprops' = Append(vprops, variants[vidx])
                 /\ vpc' = "heap"
                 /\ UNCHANGED vidx
            ELSE /\ vidx' = vidx + 1
                 /\ UNCHANGED <<vpc, vprops>>
    /\ UNCHANGED <<bridge, ctl, out, last, filt, conc, hwc, sku>>

set_dalvik_heap ==
    /\ vpc = "heap"
    /\ vpc' = "done"
    /\ UNCHANGED <<bridge, ctl, out, last, filt, conc, hwc, sku, vidx, vprops>>

VariantNext ==
    \/ vendor_load_properties
    \/ search_variant
    \/ set_dalvik_heap

SpecVariant == VariantInit /\ [][VariantNext]_vars

(***************************************************************************)
(* setNotify and notify statement by statement, called from several        *)
(* threads at once on a bridge whose first module opened.  Both take       *)
(* mClientCallbackMutex with a lock_guard in their first statement and     *)
(* hold it until they return.                                              *)
(***************************************************************************)
\* calls of setNotify and of notify made in a run
MaxSetNotify == 2
MaxNotify == 2

\* the messages the driver threads deliver
ConcMsgs ==
    {m \in Msgs : /\ m.type \in {"FINGERPRINT_AUTHENTICATED",
                                 "FINGERPRINT_TEMPLATE_ENROLLING"}
                  /\ m.fid = 1 /\ m.gid = 0 /\ m.rem = 0}

ConcInit == BoostInit

Goto(t, p) == pc' = [pc EXCEPT ![t] = p]

\* faulty variant: the mutex is taken without waiting for its holder
AcquireNoWait(t) == mClientCallbackMutex' = t

\* std::lock_guard's constructor
Acquire(t) ==
    /\ mClientCallbackMutex = "free"
    /\ mClientCallbackMutex' = t

\* std::lock_guard's destructor
Release(t) ==
    mClientCallbackMutex' =
        IF mClientCallbackMutex = t THEN "free" ELSE mClientCallbackMutex

\* a host thread calls setNotify(clientCallback)
SetNotifyEnter ==
    \E t \in HostThreads, clientCallback \in 0 .. MaxCallbacks :
      /\ pc[t] = "idle"
      /\ stores + Cardinality({h \in HostThreads :
                                   pc[h] \in {"sn_lock", "sn_store"}})
             < MaxSetNotify
      /\ loc' = [loc EXCEPT ![t] = [NoLoc EXCEPT !.arg = clientCallback]]
      /\ Goto(t, "sn_lock")
      /\ UNCHANGED <<bridge, ctl, out, last, filt, variant,
                     mClientCallbackMutex, notified, stores, returned>>

SetNotifyLock ==
    \E t \in HostThreads :
      /\ pc[t] = "sn_lock"
      /\ Acquire(t)
      /\ Goto(t, "sn_store")
      /\ UNCHANGED <<bridge, ctl, out, last, filt, variant,
                     loc, notified, stores, returned>>

\* mClientCallback = clientCallback
SetNotifyStore ==
    \E t \in HostThreads :
      /\ pc[t] = "sn_store"
      /\ mClientCallback' = loc[t].arg
      /\ stores' = stores + 1
      /\ loc' = [loc EXCEPT ![t].stored = stores + 1]
      /\ Goto(t, "sn_ret")
      /\ UNCHANGED <<mDevice, mFod, mBoostHintIsSupported,
                     mBoostHintSupportIsChecked, mPowerHalExtAidl,
                     ctl, out, last, filt, variant,
                     mClientCallbackMutex, notified, returned>>

\* return reinterpret_cast<uint64_t>(mDevice)
SetNotifyReturn ==
    \E t \in HostThreads :
      /\ pc[t] = "sn_ret"
      /\ Release(t)
      /\ returned' = IF loc[t].stored > returned
                     THEN loc[t].stored ELSE returned
      /\ loc' = [loc EXCEPT ![t] = NoLoc]
      /\ Goto(t, "idle")
      /\ UNCHANGED <<bridge, ctl, out, last, filt, variant, notified, stores>>

\* a driver thread calls notify(msg)
NotifyEnter ==
    \E t \in DriverThreads, msg \in ConcMsgs :
      /\ pc[t] = "idle"
      /\ notified < MaxNotify
      /\ notified' = notified + 1
      /\ loc' = [loc EXCEPT ![t] = [NoLoc EXCEPT !.msg = msg,
                                                 !.since = returned]]
      /\ Goto(t, "n_lock")
      /\ UNCHANGED <<bridge, ctl, out, last, filt, variant,
                     mClientCallbackMutex, stores, returned>>

NotifyLock ==
    \E t \in DriverThreads :
      /\ pc[t] = "n_lock"
      /\ Acquire(t)
      /\ loc' = [loc EXCEPT ![t].atLock = mClientCallback]
      /\ Goto(t, "n_check")
      /\ UNCHANGED <<bridge, ctl, out, last, filt, variant,
                     notified, stores, returned>>

\* if (thisPtr == nullptr || thisPtr->mClientCallback == nullptr) return
NotifyCheck ==
    \E t \in DriverThreads :
      /\ pc[t] = "n_check"
      /\ Goto(t, IF mClientCallback = NULL THEN "n_ret" ELSE "n_call")
      /\ UNCHANGED <<bridge, ctl, out, last, filt, variant,
                     mClientCallbackMutex, loc, notified, stores, returned>>

\* faulty variant: the mutex is given up once the callback was invoked
NotifyInvokeUnlocked ==
    \E t \in DriverThreads, cbOk \in BOOLEAN :
      /\ pc[t] = "n_call"
      /\ loc' = [loc EXCEPT ![t].delivered = TRUE,
                            ![t].target = mClientCallback,
                            ![t].stored = stores]
      /\ Goto(t, IF Boosts(loc[t].msg, mClientCallback, cbOk)
                 THEN "n_hint" ELSE "n_ret")
      /\ Release(t)
      /\ UNCHANGED <<bridge, ctl, out, last, filt, variant,
                     notified, stores, returned>>

\* thisPtr->mClientCallback->on...(devId, ...); cbOk: the transaction to
\* the client succeeds
NotifyInvoke ==
    \E t \in DriverThreads, cbOk \in BOOLEAN :
      /\ pc[t] = "n_call"
      /\ loc' = [loc EXCEPT ![t].delivered = TRUE,
                            ![t].target = mClientCallback,
                            ![t].stored = stores]
      /\ Goto(t, IF Boosts(loc[t].msg, mClientCallback, cbOk)
                 THEN "n_hint" ELSE "n_ret")
      /\ UNCHANGED <<bridge, ctl, out, last, filt, variant,
                     mClientCallbackMutex, notified, stores, returned>>

\* sendAuthenticatedBoostHint is entered: isBoostHintSupported reads the cache
HintEnter ==
    \E t \in DriverThreads :
      /\ pc[t] = "n_hint"
      /\ loc' = [loc EXCEPT ![t].st = BoostState]
      /\ Goto(t, "in_hint")
      /\ UNCHANGED <<bridge, ctl, out, last, filt, variant,
                     mClientCallbackMutex, notified, stores, returned>>

\* the capability check, the connection and the request are done and the
\* members assigned
HintLeave ==
    \E t \in DriverThreads, env \in PowerEnvs :
      LET r == sendAuthenticatedBoostHint(loc[t].st, env)
      IN  /\ pc[t] = "in_hint"
          /\ mBoostHintSupportIsChecked' = r.checked
          /\ mBoostHintIsSupported' = r.supported
          /\ mPowerHalExtAidl' = r.aidl
          /\ Goto(t, "n_ret")
          /\ UNCHANGED <<mClientCallback, mDevice, mFod, ctl, out, last,
                         filt, variant, mClientCallbackMutex, loc,
                         notified, stores, returned>>

NotifyReturn ==
    \E t \in DriverThreads :
      /\ pc[t] = "n_ret"
      /\ Release(t)
      /\ loc' = [loc EXCEPT ![t] = NoLoc]
      /\ Goto(t, "idle")
      /\ UNCHANGED <<bridge, ctl, out, last, filt, variant,
                     notified, stores, returned>>

ConcNext ==
    \/ SetNotifyEnter
    \/ SetNotifyLock
    \/ SetNotifyStore
    \/ SetNotifyReturn
    \/ NotifyEnter
    \/ NotifyLock
    \/ NotifyCheck
    \/ NotifyInvoke
    \/ HintEnter
    \/ HintLeave
    \/ NotifyReturn

SpecConc == ConcInit /\ [][ConcNext]_vars

(***************************************************************************)
(* Properties.                                                             *)
(***************************************************************************)
IsNotify(o) == o.op = "notify"

\* C1: an authenticated message handled by notify with a callback
\* registered makes one onAuthenticated call; with finger id 0 the token is
\* empty and no boost hint is attempted; with a non-zero finger id the token
\* has the size of the driver's hw_auth_token_t (69 bytes) and exactly one
\* sendAuthenticatedBoostHint call is made for the delivery (none when the
\* transaction to the client failed).
C1_AuthenticatedTokenAndBoost ==
    (IsNotify(last) /\ last.msg.type = "FINGERPRINT_AUTHENTICATED"
        /\ mClientCallback # NULL)
    => /\ Len(last.cbCalls) = 1
       /\ last.cbCalls[1].kind = "onAuthenticated"
       /\ last.cbCalls[1].cb = mClientCallback
       /\ last.msg.fid = 0 =>
            /\ last.cbCalls[1].tokenLen = 0
            /\ last.boostAttempts = 0
       /\ last.msg.fid # 0 =>
            /\ last.cbCalls[1].tokenLen = 69
            /\ last.boostAttempts = (IF last.cbOk THEN 1 ELSE 0)

C1_Witness ==
    /\ IsNotify(last)
    /\ last.msg.type = "FINGERPRINT_AUTHENTICATED"
    /\ last.msg.fid # 0
    /\ last.cbOk
    /\ last.cbCalls # <<>>
    /\ last.cbCalls[1].tokenLen = 69
    /\ last.boostAttempts = 1

\* C2: while no client callback is registered, a driver message of any type
\* given to notify is dropped: no callback method is invoked, no boost hint
\* is attempted, no power-service call is made and the bridge state is
\* unchanged.
C2_DroppedWithoutCallback ==
    [][(IsNotify(last') /\ ~IsNotify(last) /\ mClientCallback = NULL)
       => /\ last'.cbCalls = <<>>
          /\ last'.boostAttempts = 0
          /\ last'.pwCalls = <<>>
          /\ UNCHANGED <<bridge, ctl, out>>]_vars

\* a message that would reach the boost hint arrives after the host has
\* cleared the callback
C2_Witness ==
    /\ IsNotify(last)
    /\ mClientCallback = NULL
    /\ last.msg.type = "FINGERPRINT_AUTHENTICATED"
    /\ last.msg.fid # 0
    /\ last.cbCalls = <<>>
    /\ mBoostHintSupportIsChecked

\* C3: setActiveGroup returns SYS_EINVAL without calling set_active_group
\* when storePath is empty, at or over PATH_MAX, or not writable; the driver
\* is called only when all three checks pass, and then exactly once.
C3_SetActiveGroupValidates ==
    last.op = "setActiveGroup"
    => LET rejected == \/ last.pathLen = 0
                       \/ last.pathLen >= 4096
                       \/ ~last.writable
       IN  /\ rejected => /\ last.status = "SYS_EINVAL"
                          /\ last.driverCalls = <<>>
           /\ last.driverCalls # <<>> => ~rejected
           /\ (~rejected /\ mDevice # NULL) =>
                /\ Len(last.driverCalls) = 1
                /\ last.driverCalls[1].fn = "set_active_group"
                /\ last.status = ErrorFilter(last.drvRet)

C3_Witness ==
    /\ last.op = "setActiveGroup"
    /\ last.pathLen = PATH_MAX
    /\ last.writable
    /\ last.status = "SYS_EINVAL"
    /\ last.driverCalls = <<>>
    /\ mDevice # NULL

BoostOps == {"isBoostHintSupported", "sendAuthenticatedBoostHint"}

\* C4: once the capability is cached as unsupported (checked, not
\* supported), every later isBoostHintSupported or
\* sendAuthenticatedBoostHint returns -EOPNOTSUPP, makes no power-service
\* call (no lookup, no isBoostSupported, no setBoost) and leaves the cache
\* as it is.
C4_CachedUnsupportedIsFinal ==
    [][(mBoostHintSupportIsChecked /\ ~mBoostHintIsSupported
          /\ last'.op \in BoostOps /\ last.op = "none")
       => /\ last'.boostRet = -95
          /\ last'.pwCalls = <<>>
          /\ mBoostHintSupportIsChecked' /\ ~mBoostHintIsSupported'
          /\ UNCHANGED mPowerHalExtAidl]_vars

\* a boost hint attempted with the negative answer already cached: a call
\* that had to ask the service would have made power-service calls
C4_Witness ==
    /\ last.op = "sendAuthenticatedBoostHint"
    /\ mBoostHintSupportIsChecked
    /\ ~mBoostHintIsSupported
    /\ last.boostRet = -EOPNOTSUPP
    /\ last.pwCalls = <<>>

\* the power-service call on which the operation recorded in o ended
LastPwCall(o) == o.pwCalls[Len(o.pwCalls)]

QueryTxFailed(o) ==
    /\ o.pwCalls # <<>>
    /\ LastPwCall(o).fn = "isBoostSupported"
    /\ o.env.query = "tx_failed"

SetTxFailed(o) ==
    /\ o.pwCalls # <<>>
    /\ LastPwCall(o).fn = "setBoost"
    /\ o.env.set = "tx_failed"

\* C5: a failed binder transaction of isBoostSupported or of setBoost
\* resets the cached connection and returns -ENOTCONN (not -EOPNOTSUPP);
\* the capability flags stay as they were when the failing call was made
\* and are never left at "checked, not supported"; and a boost hint
\* attempted while the connection is reset starts with a service lookup
\* unless the capability is cached as unsupported.
C5_TransportFailureResetsConnection ==
    [][(last'.op \in BoostOps /\ last.op = "none")
       => /\ (QueryTxFailed(last') \/ SetTxFailed(last')) =>
                /\ ~mPowerHalExtAidl'
                /\ last'.boostRet = -107
                /\ last'.boostRet # -95
                /\ ~(mBoostHintSupportIsChecked' /\ ~mBoostHintIsSupported')
          /\ QueryTxFailed(last') =>
                UNCHANGED <<mBoostHintSupportIsChecked, mBoostHintIsSupported>>
          /\ SetTxFailed(last') =>
                mBoostHintSupportIsChecked' /\ mBoostHintIsSupported'
          /\ (last'.op = "sendAuthenticatedBoostHint" /\ ~mPowerHalExtAidl
                /\ ~(mBoostHintSupportIsChecked /\ ~mBoostHintIsSupported)) =>
                /\ last'.pwCalls # <<>>
                /\ last'.pwCalls[1].fn = "getService"]_vars

\* the query fails in transit on a connection that was already cached
C5_Witness ==
    /\ last.op = "sendAuthenticatedBoostHint"
    /\ QueryTxFailed(last)
    /\ Len(last.pwCalls) = 1
    /\ last.boostRet = -ENOTCONN
    /\ ~mPowerHalExtAidl
    /\ ~mBoostHintSupportIsChecked

\* the Status Code Mapping as the documentation gives it
StatusTable ==
    (0 :> "SYS_OK") @@ (-2 :> "SYS_ENOENT") @@ (-4 :> "SYS_EINTR")
    @@ (-5 :> "SYS_EIO") @@ (-11 :> "SYS_EAGAIN") @@ (-12 :> "SYS_ENOMEM")
    @@ (-13 :> "SYS_EACCES") @@ (-14 :> "SYS_EFAULT") @@ (-16 :> "SYS_EBUSY")
    @@ (-22 :> "SYS_EINVAL") @@ (-28 :> "SYS_ENOSPC")
    @@ (-110 :> "SYS_ETIMEDOUT")

\* C6: ErrorFilter answers for every integer code: the status of the table
\* for the twelve listed codes and SYS_UNKNOWN for every other one, the
\* positive values 2, 4, 5, ... 110 included.
C6_ErrorFilterTable ==
    fres.fn = "ErrorFilter"
    => fres.name = (IF fin \in DOMAIN StatusTable
                    THEN StatusTable[fin] ELSE "SYS_UNKNOWN")

C6_Witness ==
    /\ fres.fn = "ErrorFilter"
    /\ fin = 110
    /\ fres.name = "SYS_UNKNOWN"

ErrorTable ==
    (1 :> "ERROR_HW_UNAVAILABLE") @@ (2 :> "ERROR_UNABLE_TO_PROCESS")
    @@ (3 :> "ERROR_TIMEOUT") @@ (4 :> "ERROR_NO_SPACE")
    @@ (5 :> "ERROR_CANCELED") @@ (6 :> "ERROR_UNABLE_TO_REMOVE")
    @@ (7 :> "ERROR_LOCKOUT")

\* C7: VendorErrorFilter gives ERROR_VENDOR with vendorCode = e - 1000 for
\* every e at or above FINGERPRINT_ERROR_VENDOR_BASE, the same-named error
\* with vendorCode 0 for the seven listed codes, and
\* ERROR_UNABLE_TO_PROCESS with vendorCode 0 for every other code below the
\* base, 0 and the negative codes included.
C7_VendorErrorFilterBands ==
    fres.fn = "VendorErrorFilter"
    => IF fin >= 1000
       THEN fres.name = "ERROR_VENDOR" /\ fres.vendorCode = fin - 1000
       ELSE IF fin \in DOMAIN ErrorTable
       THEN fres.name = ErrorTable[fin] /\ fres.vendorCode = 0
       ELSE fres.name = "ERROR_UNABLE_TO_PROCESS" /\ fres.vendorCode = 0

C7_Witness ==
    /\ fres.fn = "VendorErrorFilter"
    /\ fin = FINGERPRINT_ERROR_VENDOR_BASE
    /\ fres.name = "ERROR_VENDOR"
    /\ fres.vendorCode = 0

\* C8: when none of the seven modules opened, no host operation and no
\* watcher step dereferences the absent device handle.
C8_InertBridgeNeverDereferences ==
    (phase = "run" /\ mDevice = NULL) => ~nullDeref

\* the class names in the order the documentation gives, and the modules
\* it marks as fingerprint-under-display
ModuleOrder ==
    <<"fpc", "fpc_fod", "goodix", "goodix_fod", "goodix_fod6", "silead", "syna">>
FodModules == {"fpc_fod", "goodix_fod", "goodix_fod6", "syna"}

\* C9: openHal is called on the modules in the order fpc, fpc_fod, goodix,
\* goodix_fod, goodix_fod6, silead, syna; every call but the last failed,
\* the first module that opens is kept and none is tried after it; once a
\* module is open isUdfps returns that module's FOD flag for every
\* sensorId.
C9_FirstModuleThatOpens ==
    /\ \A j \in 1 .. Len(openAttempts) :
         /\ openAttempts[j].i = j
         /\ kModules[j].class_name = ModuleOrder[j]
         /\ j < Len(openAttempts) => ~openAttempts[j].opened
    /\ (phase # "open" /\ mDevice # NULL) =>
         /\ openAttempts[Len(openAttempts)].opened
         /\ mDevice = openAttempts[Len(openAttempts)].i
         /\ propVendor = ModuleOrder[mDevice]
         /\ mFod = (ModuleOrder[mDevice] \in FodModules)
    /\ (last.op = "isUdfps" /\ mDevice # NULL) =>
         last.flag = (ModuleOrder[mDevice] \in FodModules)

\* the first three modules fail, goodix_fod opens and isUdfps is asked
\* with the largest sensor id
C9_Witness ==
    /\ last.op = "isUdfps"
    /\ last.arg = MaxSensorId
    /\ mDevice = 4
    /\ Len(openAttempts) = 4
    /\ last.flag

\* C10: for every hardware id and SKU read, exactly one record is applied,
\* the first of India, global, default whose non-empty match fields equal
\* the identifiers: "INDIA" gives raphaelin / MZB7751IN without NFC,
\* "GLOBAL" gives M1903F11G with NFC, every other hardware id gives the
\* fallback M1903F11A with NFC, whatever the SKU.
C10_VariantSelected ==
    vpc \in {"heap", "done"}
    => /\ Len(vprops) = 1
       /\ CASE hwc = "INDIA" ->
                 /\ vprops[1].device = "raphaelin"
                 /\ vprops[1].model = "MZB7751IN"
                 /\ ~vprops[1].nfc
            [] hwc = "GLOBAL" ->
                 /\ vprops[1].model = "M1903F11G"
                 /\ vprops[1].nfc
            [] OTHER ->
                 /\ vprops[1].hwc_value = "" /\ vprops[1].sku_value = ""
                 /\ vprops[1].model = "M1903F11A"
                 /\ vprops[1].nfc

C10_Witness ==
    /\ vpc = "done"
    /\ hwc = "INDIA"
    /\ sku = "GLOBAL"
    /\ Len(vprops) = 1
    /\ vprops[1].model = "MZB7751IN"

(***************************************************************************)
(* C11: a boost-hint attempt is made only after onAuthenticated for a      *)
(* non-zero finger id was delivered successfully: a notify that attempts a *)
(* boost or makes any power-service call handled an authenticated message  *)
(* with a non-zero finger id whose single onAuthenticated invocation       *)
(* succeeded, and it attempts the boost once; a failed delivery, finger id *)
(* 0 and every other message type give no attempt and no power-service     *)
(* call; whatever the boost attempt returns, the delivery was made exactly *)
(* once.                                                                   *)
(***************************************************************************)
C11_BoostOnlyAfterDelivery ==
    IsNotify(last) =>
      /\ (last.boostAttempts > 0 \/ last.pwCalls # <<>>) =>
           /\ last.msg.type = "FINGERPRINT_AUTHENTICATED"
           /\ last.msg.fid # 0
           /\ last.cbOk
           /\ last.boostAttempts = 1
      /\ (\/ ~last.cbOk
          \/ last.msg.fid = 0
          \/ last.msg.type # "FINGERPRINT_AUTHENTICATED") =>
           last.boostAttempts = 0 /\ last.pwCalls = <<>>
      /\ last.boostAttempts > 0 =>
           /\ Len(last.cbCalls) = 1
           /\ last.cbCalls[1].kind = "onAuthenticated"
           /\ last.cbCalls[1].fid = last.msg.fid

\* a boost attempt that failed after a successful delivery
C11_Witness ==
    /\ IsNotify(last)
    /\ last.boostAttempts = 1
    /\ last.boostRet # NO_ERROR
    /\ last.pwCalls # <<>>
    /\ Len(last.cbCalls) = 1

\* the method of the client callback that each message type is handed to
CallbackKind ==
    [t \in {"FINGERPRINT_ERROR", "FINGERPRINT_ACQUIRED",
            "FINGERPRINT_TEMPLATE_ENROLLING", "FINGERPRINT_TEMPLATE_REMOVED",
            "FINGERPRINT_AUTHENTICATED", "FINGERPRINT_TEMPLATE_ENUMERATING"} |->
        CASE t = "FINGERPRINT_ERROR" -> "onError"
          [] t = "FINGERPRINT_ACQUIRED" -> "onAcquired"
          [] t = "FINGERPRINT_TEMPLATE_ENROLLING" -> "onEnrollResult"
          [] t = "FINGERPRINT_TEMPLATE_REMOVED" -> "onRemoved"
          [] t = "FINGERPRINT_AUTHENTICATED" -> "onAuthenticated"
          [] OTHER -> "onEnumerate"]

(***************************************************************************)
(* C16: with a callback registered, a message of type error, acquired,     *)
(* enrolling, removed, authenticated or enumerating causes exactly one     *)
(* invocation of the registered callback, of the kind that belongs to the  *)
(* type, carrying the message's finger id, group id and remaining count    *)
(* as they are (an error or acquired message has none, an authenticated    *)
(* one no remaining count: they are 0 on both sides); a message of any     *)
(* other type causes none; whether or not the delivery succeeded the       *)
(* callback stays registered and the process goes on, so later messages    *)
(* are dispatched.                                                         *)
(***************************************************************************)
C16_OneCallbackPerMessage ==
    [][(IsNotify(last') /\ ~IsNotify(last) /\ mClientCallback # NULL)
       => /\ IF last'.msg.type \in DOMAIN CallbackKind
             THEN /\ Len(last'.cbCalls) = 1
                  /\ last'.cbCalls[1].cb = mClientCallback
                  /\ last'.cbCalls[1].kind = CallbackKind[last'.msg.type]
                  /\ last'.cbCalls[1].fid = last'.msg.fid
                  /\ last'.cbCalls[1].gid = last'.msg.gid
                  /\ last'.cbCalls[1].rem = last'.msg.rem
             ELSE last'.cbCalls = <<>>
          /\ mClientCallback' = mClientCallback
          /\ UNCHANGED <<mDevice, ctl, out>>]_vars

\* an enrolling message whose delivery failed, with distinct ids
C16_Witness ==
    /\ IsNotify(last)
    /\ mClientCallback # NULL
    /\ last.msg.type = "FINGERPRINT_TEMPLATE_ENROLLING"
    /\ last.msg.fid = 2 /\ last.msg.gid = 1 /\ last.msg.rem = 1
    /\ ~last.cbOk
    /\ Len(last.cbCalls) = 1
    /\ ~nullDeref

\* the six acquisition codes of the driver's header that have a name
AcquiredTable ==
    (0 :> "ACQUIRED_GOOD") @@ (1 :> "ACQUIRED_PARTIAL")
    @@ (2 :> "ACQUIRED_INSUFFICIENT") @@ (3 :> "ACQUIRED_IMAGER_DIRTY")
    @@ (4 :> "ACQUIRED_TOO_SLOW") @@ (5 :> "ACQUIRED_TOO_FAST")

\* C20: VendorAcquiredFilter gives ACQUIRED_VENDOR with vendorCode = i - 1000
\* for every i at or above FINGERPRINT_ACQUIRED_VENDOR_BASE, the same-named
\* info with vendorCode 0 for the six listed codes, ACQUIRED_INSUFFICIENT
\* with vendorCode 0 for every other code; vendorCode is non-zero only with
\* ACQUIRED_VENDOR.
C20_VendorAcquiredFilterBands ==
    fres.fn = "VendorAcquiredFilter"
    => /\ IF fin >= 1000
          THEN fres.name = "ACQUIRED_VENDOR" /\ fres.vendorCode = fin - 1000
          ELSE IF fin \in DOMAIN AcquiredTable
          THEN fres.name = AcquiredTable[fin] /\ fres.vendorCode = 0
          ELSE fres.name = "ACQUIRED_INSUFFICIENT" /\ fres.vendorCode = 0
       /\ fres.vendorCode # 0 => fres.name = "ACQUIRED_VENDOR"

C20_Witness ==
    /\ fres.fn = "VendorAcquiredFilter"
    /\ fin = FINGERPRINT_ACQUIRED_VENDOR_BASE + 1
    /\ fres.name = "ACQUIRED_VENDOR"
    /\ fres.vendorCode = 1

(***************************************************************************)
(* C19: the device identifier is stable.  Once the constructor has         *)
(* returned the device handle never changes; every setNotify returns the   *)
(* number of that handle whatever callback is passed; the deviceId of      *)
(* every callback invocation made by notify is the same number.            *)
(***************************************************************************)
C19_DeviceIdStable ==
    [][/\ phase = "run" => mDevice' = mDevice
       /\ last'.op = "setNotify" => last'.value = mDevice'
       /\ IsNotify(last') =>
            \A i \in 1 .. Len(last'.cbCalls) :
                last'.cbCalls[i].devId = mDevice']_vars

\* callback 2 registered on a bridge whose third module opened
C19_Witness ==
    /\ last.op = "setNotify"
    /\ mDevice = 3
    /\ last.arg = 2
    /\ last.value = 3

\* the setBoost requests among the power-service calls of an operation
SetBoostCalls(o) == SelectSeq(o.pwCalls, LAMBDA c : c.fn = "setBoost")

IsSendHint(o) == o.op = "sendAuthenticatedBoostHint"

(***************************************************************************)
(* C17 as it is worded: sendAuthenticatedBoostHint makes no power-service  *)
(* request when the capability is cached as unsupported and in every other *)
(* case makes exactly one setBoost request, for LAUNCH and 2000 ms.        *)
(***************************************************************************)
C17_BoostUnlessCachedUnsupported ==
    [][(IsSendHint(last') /\ ~IsSendHint(last))
       => IF mBoostHintSupportIsChecked /\ ~mBoostHintIsSupported
          THEN last'.pwCalls = <<>>
          ELSE SetBoostCalls(last') =
                   <<[fn |-> "setBoost", boost |-> "LAUNCH",
                      durationMs |-> 2000]>>]_vars

(***************************************************************************)
(* C17 as the code has it: no power-service request when the capability is *)
(* cached as unsupported; one setBoost request, for LAUNCH and 2000 ms and *)
(* as the last request of the call, exactly when the power service is      *)
(* connected or can be connected and the capability is cached as supported *)
(* or, not being cached, the query of this call answers true; no setBoost  *)
(* request in any other case (service absent, query answered false or      *)
(* failed).                                                                *)
(***************************************************************************)
C17_BoostOnlyWhenSupported ==
    [][(IsSendHint(last') /\ ~IsSendHint(last))
       => LET connects == mPowerHalExtAidl \/ last'.env.svcUp
              supported == IF mBoostHintSupportIsChecked
                           THEN mBoostHintIsSupported
                           ELSE last'.env.query = "true"
              n == Len(last'.pwCalls)
          IN  /\ (mBoostHintSupportIsChecked /\ ~mBoostHintIsSupported)
                   => last'.pwCalls = <<>>
              /\ IF connects /\ supported
                 THEN /\ SetBoostCalls(last') =
                             <<[fn |-> "setBoost", boost |-> "LAUNCH",
                                durationMs |-> 2000]>>
                      /\ last'.pwCalls[n].fn = "setBoost"
                 ELSE SetBoostCalls(last') = <<>>]_vars

\* the capability was not cached, the query answered true and the request
\* was made
C17_Witness ==
    /\ IsSendHint(last)
    /\ Len(last.pwCalls) = 3
    /\ last.pwCalls[2].fn = "isBoostSupported"
    /\ last.pwCalls[3] = [fn |-> "setBoost", boost |-> "LAUNCH",
                          durationMs |-> 2000]
    /\ last.boostRet = NO_ERROR

\* the five forwarding operations: the driver entry point each one calls
\* and whether its result goes through ErrorFilter
ForwardingOps ==
    ("preEnroll" :> [fn |-> "pre_enroll", filtered |-> FALSE])
    @@ ("postEnroll" :> [fn |-> "post_enroll", filtered |-> TRUE])
    @@ ("getAuthenticatorId" :>
            [fn |-> "get_authenticator_id", filtered |-> FALSE])
    @@ ("cancel" :> [fn |-> "cancel", filtered |-> TRUE])
    @@ ("enumerate" :> [fn |-> "enumerate", filtered |-> TRUE])

(***************************************************************************)
(* C18: each of preEnroll, postEnroll, getAuthenticatorId, cancel and      *)
(* enumerate makes exactly one call of the same-named driver entry point   *)
(* and leaves the members of the bridge unchanged; postEnroll, cancel and  *)
(* enumerate return the Status Code Mapping of the driver's return code,   *)
(* preEnroll and getAuthenticatorId the driver's number as it is.          *)
(***************************************************************************)
C18_ForwardersCallOnce ==
    [][(last = NoObs /\ last'.op \in DOMAIN ForwardingOps)
       => LET f == ForwardingOps[last'.op]
          IN  /\ Len(last'.driverCalls) = 1
              /\ last'.driverCalls[1].fn = f.fn
              /\ IF f.filtered
                 THEN last'.status =
                          (IF last'.drvRet \in DOMAIN StatusTable
                           THEN StatusTable[last'.drvRet] ELSE "SYS_UNKNOWN")
                 ELSE last'.value = last'.drvRet
              /\ UNCHANGED bridge]_vars

\* the parameter the watcher passes for what a wake read
NitParam(w) ==
    IF w.seekRc = 0 /\ w.readRc = 1 /\ w.c # "0" THEN 1 ELSE 0

(***************************************************************************)
(* C14: the FOD watcher thread exists only when a module opened and its    *)
(* FOD flag is true; onFingerDown and onFingerUp make no driver call and   *)
(* no operation of the bridge other than the watcher originates command 10 *)
(* (extCmd passes on the command number its caller gives); on each wake of *)
(* its wait the watcher issues exactly one command 10, with parameter 1    *)
(* when the character read is not '0' and 0 when it is '0'.                *)
(***************************************************************************)
C14_WatcherOnlyForFodModule ==
    /\ watcher # "none" => (mDevice # NULL /\ kModules[mDevice].fod)
    /\ last.op \in {"onFingerDown", "onFingerUp"} => last.driverCalls = <<>>
    /\ \A i \in 1 .. Len(last.driverCalls) :
          (last.driverCalls[i].fn = "extCmd" /\ last.driverCalls[i].a = 10)
              => last.op \in {"watcherWake", "extCmd"}
    /\ (last.op = "watcherWake" /\ last.wake.pollRc >= 0)
          => last.driverCalls =
                 <<[fn |-> "extCmd", a |-> 10, b |-> NitParam(last.wake)]>>

(***************************************************************************)
(* C15: when open of the kernel file fails the watcher ends having issued  *)
(* no driver command; once the open succeeded the watcher never ends:      *)
(* after every wake, a failed wait or a failed read included, the thread   *)
(* is back at its wait.                                                    *)
(***************************************************************************)
C15_WatcherLoopsForever ==
    [][/\ (watcher = "start" /\ watcher' = "ended") => UNCHANGED last
       /\ watcher = "poll" => watcher' = "poll"
       /\ (last'.op = "watcherWake" /\ last = NoObs)
             => (watcher' = "poll" /\ ~nullDeref')]_vars

\* where a thread is while it works under the lock_guard
UnderLock ==
    {"sn_store", "sn_ret", "n_check", "n_call", "n_hint", "in_hint", "n_ret"}

(***************************************************************************)
(* C12: under every interleaving of setNotify and notify calls the reads   *)
(* and writes of mClientCallback are mutually exclusive: a thread past its *)
(* lock_guard holds the mutex.  A notify delivers to the callback that was *)
(* registered when it acquired the mutex, and that callback was not stored *)
(* before the latest store whose setNotify had returned when the notify    *)
(* started.                                                                *)
(***************************************************************************)
C12_CallbackUnderMutex ==
    /\ \A t \in Threads : pc[t] \in UnderLock => mClientCallbackMutex = t
    /\ \A d \in DriverThreads :
          loc[d].delivered =>
              /\ loc[d].target = loc[d].atLock
              /\ loc[d].stored >= loc[d].since

\* a notify delivers to callback 1 while a setNotify of another callback
\* waits for the mutex
C12_Witness ==
    \E d \in DriverThreads, h \in HostThreads :
      /\ loc[d].delivered
      /\ mClientCallbackMutex = d
      /\ loc[d].target = 1
      /\ pc[h] = "sn_lock"
      /\ loc[h].arg = 2

(***************************************************************************)
(* C13 as it is worded: the capability check and the connection step are   *)
(* not synchronized, that is, a thread that is inside them holds no lock   *)
(* that keeps a second notify out.                                         *)
(***************************************************************************)
C13_CapabilityCheckUnlocked ==
    \A t \in DriverThreads : pc[t] = "in_hint" => mClientCallbackMutex # t

(***************************************************************************)
(* C13 as the code has it: the cache has no lock of its own, but the       *)
(* capability check and the connection step are only reached from notify,  *)
(* under mClientCallbackMutex: at most one thread is inside them, it holds *)
(* the mutex, and the cache it read on entry is not assigned by any other  *)
(* thread while it is inside.                                              *)
(***************************************************************************)
C13_OneThreadInCapabilityCheck ==
    /\ Cardinality({t \in DriverThreads : pc[t] = "in_hint"}) <= 1
    /\ \A t \in DriverThreads :
          pc[t] = "in_hint" =>
              /\ mClientCallbackMutex = t
              /\ loc[t].st = BoostState

\* two authenticated notify calls with a non-zero finger id overlap: one is
\* inside the capability check, the other waits for the mutex
C13_Witness ==
    \E t, u \in DriverThreads :
      /\ pc[t] = "in_hint"
      /\ pc[u] = "n_lock"
      /\ loc[u].msg.type = "FINGERPRINT_AUTHENTICATED"
      /\ loc[u].msg.fid # 0
      /\ ~mBoostHintSupportIsChecked

(***************************************************************************)
(* C21: the boost cache.  supported implies checked in every state; once   *)
(* checked is true neither flag changes again, whatever is called and      *)
(* whatever the power service does; while checked is false a call asks the *)
(* power service, and checked becomes true only on a definite answer: the  *)
(* service is connected or can be connected and the query answers true     *)
(* (supported becomes true) or false (supported stays false); every other  *)
(* failure leaves checked false.                                           *)
(***************************************************************************)
C21_BoostCacheWriteOnce ==
    [][/\ mBoostHintIsSupported' => mBoostHintSupportIsChecked'
       /\ mBoostHintSupportIsChecked =>
            /\ mBoostHintSupportIsChecked'
            /\ mBoostHintIsSupported' = mBoostHintIsSupported
       /\ (~mBoostHintSupportIsChecked /\ last'.op \in BoostOps
             /\ last.op = "none") =>
            LET connects == mPowerHalExtAidl \/ last'.env.svcUp
            IN  /\ last'.pwCalls # <<>>
                /\ mBoostHintSupportIsChecked' =
                       (connects /\ last'.env.query \in {"true", "false"})
                /\ mBoostHintIsSupported' =
                       (connects /\ last'.env.query = "true")]_vars

\* a boost request made on the cached positive answer (no query was sent)
\* failed in transport: both flags are as they were
C21_Witness ==
    /\ last.op = "sendAuthenticatedBoostHint"
    /\ last.pwCalls # <<>>
    /\ \A i \in 1 .. Len(last.pwCalls) :
          last.pwCalls[i].fn # "isBoostSupported"
    /\ last.boostRet = -ENOTCONN
    /\ mBoostHintSupportIsChecked
    /\ mBoostHintIsSupported
    /\ ~mPowerHalExtAidl

(***************************************************************************)
(* C22: a wake of the FOD watcher on which lseek or the one-character read *)
(* fails still issues command 10 to the driver, with parameter 0, as a     *)
(* wake that read '0' does; only a wake whose poll returned an error       *)
(* issues no command.                                                      *)
(***************************************************************************)
C22_FailedReadSendsInactive ==
    last.op = "watcherWake" =>
        IF last.wake.pollRc < 0
        THEN last.driverCalls = <<>>
        ELSE (\/ last.wake.seekRc # 0
              \/ last.wake.readRc # 1
              \/ last.wake.c = "0")
                 => last.driverCalls =
                        <<[fn |-> "extCmd", a |-> COMMAND_NIT,
                           b |-> PARAM_NIT_NONE]>>

====
